---- MODULE Spec2Model ----
(***************************************************************************)
(* A model of src/browser.py: the HashMapper open-addressing table         *)
(* (insert / insert_words / find_encrypted_word / get_encryption_mapping), *)
(* the text transformer encrypt_text_content of WebContentLoader, and the  *)
(* HashMapperBrowser window with its loader threads: a handler of the      *)
(* window is one step of the GUI thread, a loader runs in a step of its    *)
(* own and its signal is delivered to the window in a later step.          *)
(*                                                                         *)
(* A Python str is a sequence of one-character strings, so that lower()    *)
(* and strip() are computed and not assumed.  hashlib.sha256 is an unknown *)
(* but fixed function: the variable digest holds its value for every word  *)
(* the table stores; the value of a word is chosen when insert first       *)
(* hashes it and never changes.  The operators that hash take the function *)
(* as their first argument sha.  A call that raises is a result record whose  *)
(* err field names the exception; the object is then left as the code      *)
(* leaves it.                                                              *)
(***************************************************************************)
EXTENDS Integers, Sequences, FiniteSets, TLC

VARIABLES
    hash_mapper,   \* the HashMapper instance: table_size, table, word_to_index, index_to_word
    digest,        \* int(sha256(word).hexdigest(), 16) of the words the table stores
    last,          \* the last call: what was called, with what, and how it ended
    calls,         \* SpecFill only: the insert calls made so far, <<word, err>> each
    text,                \* SpecText: the text encrypt_text_content is given
    encryption_mapping,  \* SpecText: the mapping encrypt_text_content is given
    browser,       \* SpecBrowser: the fields of the HashMapperBrowser window
    mappers,       \* SpecBrowser: the HashMapper instances constructed so far
    loaders,       \* SpecBrowser: the WebContentLoader threads started so far
    signals        \* SpecBrowser: the signals emitted by loaders, not yet delivered

textVars == <<text, encryption_mapping>>

guiVars == <<browser, mappers, loaders, signals>>

vars == <<hash_mapper, digest, last, calls, textVars, guiVars>>

----------------------------------------------------------------------------
(* Bounds of the model *)

\* table_size ranges over MinCap .. MaxCap
MaxCap == 3
\* digests range over 0 .. MaxDigest: with table_size 3 this is one full period
\* of (digest % 3, 1 + (digest \div 3) % 2)
MaxDigest == 5
\* get_encryption_mapping is called with at most this many distinct strings
MaxMapWords == 2
\* insert_words is called with lists of at most this length
MaxBatch == 2
\* SpecWalk: table_size ranges over 2 .. WalkCap; 4 is the least table_size with
\* a step that is not coprime with it
WalkCap == 4
\* SpecText: encrypt_text_content is given texts of at most this length
MaxTextLen == 4
\* SpecBrowser: at most this many loads are started
MaxLoads == 2
\* SpecBrowser: at most this many HashMapper instances are constructed
MaxMappers == 3

----------------------------------------------------------------------------
(* Python values *)

\* Python's None: a value that is no str (no element of a str is "None")
None == <<"None">>

NoError == "none"

\* str.lower(), one character
LowerChar(ch) ==
    CASE ch = "A" -> "a"
      [] ch = "B" -> "b"
      [] ch = "C" -> "c"
      [] OTHER -> ch

\* str.lower()
lower(s) == [i \in 1..Len(s) |-> LowerChar(s[i])]

IsSpace(ch) == ch \in {" ", "\t", "\n"}

RECURSIVE lstrip(_)
lstrip(s) == IF s # <<>> /\ IsSpace(Head(s)) THEN lstrip(Tail(s)) ELSE s

RECURSIVE rstrip(_)
rstrip(s) ==
    IF s # <<>> /\ IsSpace(s[Len(s)]) THEN rstrip(SubSeq(s, 1, Len(s) - 1)) ELSE s

\* str.strip()
strip(s) == rstrip(lstrip(s))

\* Python's truth value of a str or None (`if word`, `if encrypted`)
Truthy(v) == v # None /\ v # <<>>

\* a % n for a >= 0 and n # 0: the result has the sign of n
PyMod(a, n) == IF n > 0 THEN a % n ELSE 0 - ((0 - a) % (0 - n))

\* a // n for a >= 0 and n > 0
PyFloorDiv(a, n) == a \div n

\* d[k] = v on a dict
DictSet(d, k, v) == [x \in (DOMAIN d) \cup {k} |-> IF x = k THEN v ELSE d[x]]

EmptyDict == [x \in {} |-> None]

----------------------------------------------------------------------------
(* class HashMapper *)

\* HashMapper.__init__(table_size): [None] * table_size is [] for table_size <= 0
HashMapperInit(table_size) ==
    [ table_size    |-> table_size,
      table         |-> [i \in 0..(table_size - 1) |-> None],
      word_to_index |-> EmptyDict,
      index_to_word |-> EmptyDict ]

\* _compute_hash returning the slot after the one the digest names
compute_hash_next_slot(sha, self, word) == PyMod(sha[word] + 1, self.table_size)

\* _compute_hash: int_hash % self.table_size
compute_hash(sha, self, word) == PyMod(sha[word], self.table_size)

\* _compute_step without its leading `1 +`: a step of 0 .. table_size - 2
compute_step_from_zero(sha, self, word) ==
    PyMod(PyFloorDiv(sha[word], self.table_size), self.table_size - 1)

\* _compute_step: 1 + (int_hash // self.table_size) % (self.table_size - 1)
compute_step(sha, self, word) ==
    1 + PyMod(PyFloorDiv(sha[word], self.table_size), self.table_size - 1)

\* insert_store with the update of index_to_word left out
insert_store_no_reverse(self, word, index) ==
    [ self EXCEPT !.table         = [self.table EXCEPT ![index] = word],
                  !.word_to_index = DictSet(self.word_to_index, word, index) ]

\* the three assignments that end insert
insert_store(self, word, index) ==
    [ self EXCEPT !.table         = [self.table EXCEPT ![index] = word],
                  !.word_to_index = DictSet(self.word_to_index, word, index),
                  !.index_to_word = DictSet(self.index_to_word, index, word) ]

\* the loop of insert storing the word in the slot it stops at when it gives up
RECURSIVE insert_probe_store_on_full(_, _, _, _, _)
insert_probe_store_on_full(self, word, original_index, index, probe) ==
    IF index \notin DOMAIN self.table
    THEN [self |-> self, err |-> "IndexError", hit |-> FALSE, probe |-> probe]
    ELSE IF self.table[index] # None
    THEN LET p == probe + 1
             i == PyMod(original_index + p, self.table_size)
         IN  IF p >= self.table_size
             THEN [self |-> insert_store(self, word, i), err |-> "ValueError",
                   hit |-> FALSE, probe |-> p]
             ELSE insert_probe_store_on_full(self, word, original_index, i, p)
    ELSE [self |-> insert_store(self, word, index), err |-> NoError,
          hit |-> FALSE, probe |-> probe]

\* the loop of insert giving up one probe too early (probe >= table_size - 1)
RECURSIVE insert_probe_gives_up_early(_, _, _, _, _)
insert_probe_gives_up_early(self, word, original_index, index, probe) ==
    IF index \notin DOMAIN self.table
    THEN [self |-> self, err |-> "IndexError", hit |-> FALSE, probe |-> probe]
    ELSE IF self.table[index] # None
    THEN LET p == probe + 1
             i == PyMod(original_index + p, self.table_size)
         IN  IF p >= self.table_size - 1
             THEN [self |-> self, err |-> "ValueError", hit |-> FALSE, probe |-> p]
             ELSE insert_probe_gives_up_early(self, word, original_index, i, p)
    ELSE [self |-> insert_store(self, word, index), err |-> NoError,
          hit |-> FALSE, probe |-> probe]

\* insert without its loop: the word is stored in the slot the digest names,
\* occupied or not
insert_probe_overwrites(self, word, original_index, index, probe) ==
    IF index \notin DOMAIN self.table
    THEN [self |-> self, err |-> "IndexError", hit |-> FALSE, probe |-> probe]
    ELSE [self |-> insert_store(self, word, index), err |-> NoError,
          hit |-> FALSE, probe |-> probe]

\* the while loop of insert, entered with index and probe
RECURSIVE insert_probe(_, _, _, _, _)
insert_probe(self, word, original_index, index, probe) ==
    IF index \notin DOMAIN self.table
    THEN [self |-> self, err |-> "IndexError", hit |-> FALSE, probe |-> probe]
    ELSE IF self.table[index] # None
    THEN LET p == probe + 1
             i == PyMod(original_index + p, self.table_size)
         IN  IF p >= self.table_size
             THEN [self |-> self, err |-> "ValueError", hit |-> FALSE, probe |-> p]
             ELSE insert_probe(self, word, original_index, i, p)
    ELSE [self |-> insert_store(self, word, index), err |-> NoError,
          hit |-> FALSE, probe |-> probe]

\* insert without its early return for a word already present (lines 38-39)
insert_no_early_return(sha, self, word) ==
    IF self.table_size = 0
    THEN [self |-> self, err |-> "ZeroDivisionError", hit |-> FALSE, probe |-> 0]
    ELSE LET index == compute_hash(sha, self, word)
         IN  insert_probe(self, word, index, index, 0)

\* HashMapper.insert(word): hit is the early return of a word already present
insert(sha, self, word) ==
    IF word \in DOMAIN self.word_to_index
    THEN [self |-> self, err |-> NoError, hit |-> TRUE, probe |-> 0]
    ELSE IF self.table_size = 0
    THEN [self |-> self, err |-> "ZeroDivisionError", hit |-> FALSE, probe |-> 0]
    ELSE LET index == compute_hash(sha, self, word)
         IN  insert_probe(self, word, index, index, 0)

\* HashMapper.insert_words(words): the loop goes on after an insert that returns
\* and ends with the first insert that raises
RECURSIVE insert_words(_, _, _)
insert_words_after(sha, r, rest) ==
    IF r.err # NoError
    THEN [self |-> r.self, err |-> r.err]
    ELSE insert_words(sha, r.self, rest)

insert_words(sha, self, words) ==
    IF words = <<>>
    THEN [self |-> self, err |-> NoError]
    ELSE LET word == Head(words)
         IN  IF Truthy(word) /\ Truthy(strip(word))
             THEN insert_words_after(sha, insert(sha, self, lower(strip(word))),
                                     Tail(words))
             ELSE insert_words(sha, self, Tail(words))

\* the loop of find_encrypted_word without the test `!= word` of line 75
RECURSIVE find_walk_any_word(_, _, _, _, _, _)
find_walk_any_word(self, word, step, start_probe, probe_index, attempts) ==
    IF ~(attempts < self.table_size)
    THEN None
    ELSE IF self.table[probe_index] # None
    THEN self.table[probe_index]
    ELSE LET next == PyMod(probe_index + step, self.table_size)
         IN  IF next = start_probe
             THEN None
             ELSE find_walk_any_word(self, word, step, start_probe, next, attempts + 1)

\* the loop of find_encrypted_word making one attempt less (attempts <
\* table_size - 1)
RECURSIVE find_walk_one_short(_, _, _, _, _, _)
find_walk_one_short(self, word, step, start_probe, probe_index, attempts) ==
    IF ~(attempts < self.table_size - 1)
    THEN None
    ELSE IF self.table[probe_index] # None /\ self.table[probe_index] # word
    THEN self.table[probe_index]
    ELSE LET next == PyMod(probe_index + step, self.table_size)
         IN  IF next = start_probe
             THEN None
             ELSE find_walk_one_short(self, word, step, start_probe, next, attempts + 1)

\* the while loop of find_encrypted_word
RECURSIVE find_walk(_, _, _, _, _, _)
find_walk(self, word, step, start_probe, probe_index, attempts) ==
    IF ~(attempts < self.table_size)
    THEN None
    ELSE IF self.table[probe_index] # None /\ self.table[probe_index] # word
    THEN self.table[probe_index]
    ELSE LET next == PyMod(probe_index + step, self.table_size)
         IN  IF next = start_probe
             THEN None
             ELSE find_walk(self, word, step, start_probe, next, attempts + 1)

\* find_encrypted_word starting its walk at hash_index, not at hash_index + step
find_encrypted_word_from_primary(sha, self, raw) ==
    LET word == strip(lower(raw))
    IN  IF word \notin DOMAIN self.word_to_index
        THEN [err |-> NoError, ret |-> None]
        ELSE IF self.table_size - 1 = 0
        THEN [err |-> "ZeroDivisionError", ret |-> None]
        ELSE LET hash_index  == compute_hash(sha, self, word)
                 step        == compute_step(sha, self, word)
             IN  [err |-> NoError,
                  ret |-> find_walk(self, word, step, hash_index, hash_index, 0)]

\* HashMapper.find_encrypted_word(word)
find_encrypted_word(sha, self, raw) ==
    LET word == strip(lower(raw))
    IN  IF word \notin DOMAIN self.word_to_index
        THEN [err |-> NoError, ret |-> None]
        ELSE IF self.table_size - 1 = 0
        THEN [err |-> "ZeroDivisionError", ret |-> None]
        ELSE LET hash_index  == compute_hash(sha, self, word)
                 step        == compute_step(sha, self, word)
                 probe_index == PyMod(hash_index + step, self.table_size)
             IN  [err |-> NoError,
                  ret |-> find_walk(self, word, step, probe_index, probe_index, 0)]

\* the loop of get_encryption_mapping mapping a word without substitute to itself
RECURSIVE mapping_loop_keeps_unmapped(_, _, _, _)
mapping_loop_keeps_unmapped(sha, self, todo, mapping) ==
    IF todo = {}
    THEN [err |-> NoError, ret |-> mapping]
    ELSE LET word == CHOOSE w \in todo : TRUE
             r    == find_encrypted_word(sha, self, word)
         IN  IF r.err # NoError
             THEN [err |-> r.err, ret |-> None]
             ELSE mapping_loop_keeps_unmapped(sha, self, todo \ {word},
                               IF Truthy(r.ret)
                               THEN DictSet(mapping, lower(word), r.ret)
                               ELSE DictSet(mapping, lower(word), lower(word)))

\* the for loop of get_encryption_mapping over set(words), in any order
RECURSIVE mapping_loop(_, _, _, _)
mapping_loop(sha, self, todo, mapping) ==
    IF todo = {}
    THEN [err |-> NoError, ret |-> mapping]
    ELSE LET word == CHOOSE w \in todo : TRUE
             r    == find_encrypted_word(sha, self, word)
         IN  IF r.err # NoError
             THEN [err |-> r.err, ret |-> None]
             ELSE mapping_loop(sha, self, todo \ {word},
                               IF Truthy(r.ret)
                               THEN DictSet(mapping, lower(word), r.ret)
                               ELSE mapping)

\* HashMapper.get_encryption_mapping(words); words is given as set(words)
get_encryption_mapping(sha, self, words) == mapping_loop(sha, self, words, EmptyDict)

----------------------------------------------------------------------------
(* class WebContentLoader: encrypt_text_content *)

\* str.upper(), one character
UpperChar(ch) ==
    CASE ch = "a" -> "A"
      [] ch = "b" -> "B"
      [] ch = "c" -> "C"
      [] OTHER -> ch

\* str.upper()
upper(s) == [i \in 1..Len(s) |-> UpperChar(s[i])]

\* the characters of the pattern class [a-zA-Z]
IsAsciiAlpha(ch) == ch \in {"a", "b", "c", "A", "B", "C"}

IsUpperChar(ch) == ch \in {"A", "B", "C"}

\* the lower-case letters, e-acute among them
IsLowerChar(ch) == ch \in {"a", "b", "c", "e-acute"}

\* the characters \w of a str pattern: letters of any alphabet, digits, underscore
IsWordChar(ch) == IsAsciiAlpha(ch) \/ ch \in {"2", "_", "e-acute"}

\* str.isupper(): no lower-case character and at least one upper-case one
isupper(s) ==
    /\ \A i \in 1..Len(s) : ~IsLowerChar(s[i])
    /\ \E i \in 1..Len(s) : IsUpperChar(s[i])

\* str.istitle(): an upper-case character only after an uncased one, a
\* lower-case character only after a cased one, and at least one cased character
RECURSIVE istitle_from(_, _, _, _)
istitle_from(s, i, previous_is_cased, cased) ==
    IF i > Len(s)
    THEN cased
    ELSE IF IsUpperChar(s[i])
    THEN IF previous_is_cased THEN FALSE ELSE istitle_from(s, i + 1, TRUE, TRUE)
    ELSE IF IsLowerChar(s[i])
    THEN IF ~previous_is_cased THEN FALSE ELSE istitle_from(s, i + 1, TRUE, TRUE)
    ELSE istitle_from(s, i + 1, FALSE, cased)

istitle(s) == istitle_from(s, 1, FALSE, FALSE)

\* str.capitalize()
capitalize(s) == IF s = <<>> THEN s ELSE <<UpperChar(Head(s))>> \o lower(Tail(s))

\* \b before the character at pos (pos = Len(s) + 1: at the end of s)
AtWordBoundary(s, pos) ==
    LET before == pos > 1 /\ IsWordChar(s[pos - 1])
        after  == pos <= Len(s) /\ IsWordChar(s[pos])
    IN  before # after

\* [a-zA-Z]+ from pos, greedy: the index of the last character it takes, pos - 1
\* when it takes none
RECURSIVE AlphaRunEnd(_, _)
AlphaRunEnd(s, pos) ==
    IF pos <= Len(s) /\ IsAsciiAlpha(s[pos]) THEN AlphaRunEnd(s, pos + 1) ELSE pos - 1

\* the closing \b of the pattern: the letters taken are given back one by one until
\* the match ends at a word boundary; 0 when no length matches
RECURSIVE match_back(_, _, _)
match_back(s, pos, end) ==
    IF end < pos
    THEN 0
    ELSE IF AtWordBoundary(s, end + 1) THEN end ELSE match_back(s, pos, end - 1)

\* a match of \b[a-zA-Z]+\b starting at pos: the index of its last character, 0
\* when there is no match at pos
match_at(s, pos) ==
    IF AtWordBoundary(s, pos) THEN match_back(s, pos, AlphaRunEnd(s, pos)) ELSE 0

\* replace_word testing istitle() before isupper()
replace_word_title_before_upper(word, mapping) ==
    LET word_lower == lower(word)
    IN  IF word_lower \in DOMAIN mapping
        THEN LET encrypted == mapping[word_lower]
             IN  IF istitle(word) THEN capitalize(encrypted)
                 ELSE IF isupper(word) THEN upper(encrypted)
                 ELSE encrypted
        ELSE word

\* replace_word returning word_lower for a word that is not in the mapping
replace_word_lowers_unmapped(word, mapping) ==
    LET word_lower == lower(word)
    IN  IF word_lower \in DOMAIN mapping
        THEN LET encrypted == mapping[word_lower]
             IN  IF isupper(word) THEN upper(encrypted)
                 ELSE IF istitle(word) THEN capitalize(encrypted)
                 ELSE encrypted
        ELSE word_lower

\* replace_word(match), word = match.group(0) (lines 179-191)
replace_word(word, mapping) ==
    LET word_lower == lower(word)
    IN  IF word_lower \in DOMAIN mapping
        THEN LET encrypted == mapping[word_lower]
             IN  IF isupper(word) THEN upper(encrypted)
                 ELSE IF istitle(word) THEN capitalize(encrypted)
                 ELSE encrypted
        ELSE word

\* re.sub(r'\b[a-zA-Z]+\b', replace_word, text) from pos on: the matches are
\* looked for from left to right, a character outside a match is copied
RECURSIVE re_sub(_, _, _)
re_sub(s, mapping, pos) ==
    IF pos > Len(s)
    THEN <<>>
    ELSE LET end == match_at(s, pos)
         IN  IF end = 0
             THEN <<s[pos]>> \o re_sub(s, mapping, pos + 1)
             ELSE replace_word(SubSeq(s, pos, end), mapping) \o re_sub(s, mapping, end + 1)

\* WebContentLoader.encrypt_text_content(text, encryption_mapping); the method of
\* HashMapperBrowser (lines 714-735) has the same body
encrypt_text_content(s, mapping) ==
    IF ~Truthy(s) \/ ~Truthy(strip(s)) THEN s ELSE re_sub(s, mapping, 1)

\* re.findall(r'\b[a-zA-Z]+\b', s) from pos on, as the set of the words found
RECURSIVE re_findall(_, _)
re_findall(s, pos) ==
    IF pos > Len(s)
    THEN {}
    ELSE LET end == match_at(s, pos)
         IN  IF end = 0
             THEN re_findall(s, pos + 1)
             ELSE {SubSeq(s, pos, end)} \cup re_findall(s, end + 1)

\* WebContentLoader.encrypt_content(soup, plain_text) on the text of the page;
\* mapping is a field the code does not return: the mapping that was applied
encrypt_content(sha, mapper, plain_text) ==
    LET words == re_findall(lower(plain_text), 1)
        m     == get_encryption_mapping(sha, mapper, words)
    IN  IF m.err # NoError
        THEN [err |-> m.err, processed_text |-> None, mapping |-> None]
        ELSE [err |-> NoError,
              processed_text |-> encrypt_text_content(plain_text, m.ret),
              mapping |-> m.ret]

\* WebContentLoader.run() once the page is fetched: the signal it emits.  The
\* third argument of content_loaded is processed_text (line 147).
loader_run(sha, loader, mapper, clean_text) ==
    IF loader.encryption_enabled
    THEN LET r == encrypt_content(sha, mapper, clean_text)
         IN  IF r.err # NoError
             THEN [signal |-> "error_occurred", error |-> r.err]
             ELSE [signal |-> "content_loaded", original_content |-> clean_text,
                   processed_content |-> r.processed_text,
                   plain_text |-> r.processed_text, mapping |-> r.mapping]
    ELSE [signal |-> "content_loaded", original_content |-> clean_text,
          processed_content |-> clean_text, plain_text |-> clean_text,
          mapping |-> EmptyDict]

----------------------------------------------------------------------------
(* class HashMapperBrowser: the handlers, which run one at a time on the GUI  *)
(* thread.  self is the record of the fields of the window, heap the sequence *)
(* of the HashMapper instances constructed so far (an instance is named by    *)
(* its index), threads the sequence of the WebContentLoader threads started.  *)

\* update_hash_settings writing the new table into the instance that is the
\* current one, instead of a new instance
update_hash_settings_in_place(sha, self, heap) ==
    LET r == insert_words(sha, HashMapperInit(self.table_size_spin), self.dictionary_text)
    IN  [ self |-> self,
          heap |-> [heap EXCEPT ![self.hash_mapper] = r.self],
          err  |-> r.err ]

\* update_hash_settings(): self.hash_mapper is a new instance (line 632), into
\* which the words of the dictionary are inserted (line 638); an exception is
\* caught after the assignment (lines 645-646)
update_hash_settings(sha, self, heap) ==
    LET r == insert_words(sha, HashMapperInit(self.table_size_spin), self.dictionary_text)
    IN  [ self |-> [self EXCEPT !.hash_mapper = Len(heap) + 1],
          heap |-> Append(heap, r.self),
          err  |-> r.err ]

\* load_url(): nothing for an empty url_input; else a WebContentLoader is made of
\* the url, the current hash_mapper and encryption_enabled, and started
load_url(self, threads) ==
    IF self.url_input = ""
    THEN [self |-> self, threads |-> threads]
    ELSE [ self    |-> [self EXCEPT !.current_url = self.url_input,
                                   !.content_loader = Len(threads) + 1],
           threads |-> Append(threads,
                              [ url                |-> self.url_input,
                                hash_mapper        |-> self.hash_mapper,
                                encryption_enabled |-> self.encryption_enabled,
                                state              |-> "running" ]) ]

\* toggle_encryption(enabled)
toggle_encryption(self, threads, enabled) ==
    LET s1 == [self EXCEPT !.encryption_enabled = enabled]
    IN  IF s1.current_url # ""
        THEN load_url(s1, threads)
        ELSE [self |-> s1, threads |-> threads]

\* on_content_loaded(original_content, processed_content, plain_text); shown_mapping
\* is no field of the code: the mapping the loader applied to what is shown
on_content_loaded(sha, self, heap, sig) ==
    [ self EXCEPT
        !.original_text  = sig.original_content,
        !.processed_text = sig.processed_content,
        !.shown_mapping  = sig.mapping,
        !.encryption_stats =
            IF self.encryption_enabled
            THEN get_encryption_mapping(sha, heap[self.hash_mapper],
                                        re_findall(lower(sig.plain_text), 1)).ret
            ELSE EmptyDict ]

----------------------------------------------------------------------------
(* The calls made on one HashMapper *)

\* the strings callers pass: blank, padded, upper case and canonical ones
RawStrings ==
    { <<>>, <<" ">>, <<"a">>, <<"B", " ">>, <<" ", "c">> }

\* the canonical words (lower case, trimmed, not empty) of RawStrings
Words == { lower(strip(s)) : s \in { t \in RawStrings : Truthy(strip(t)) } }

MinCap == 0 - 1

NoCall == [op |-> "construct", arg |-> None, err |-> NoError, ret |-> None,
           hit |-> FALSE, probe |-> 0]

\* no text transformer and no window: the state of the variables of SpecText
\* and SpecBrowser in the specifications of one HashMapper
NoTransformer == text = None /\ encryption_mapping = None

NoBrowser == browser = None /\ mappers = <<>> /\ loaders = <<>> /\ signals = <<>>

Init ==
    /\ \E n \in MinCap..MaxCap : hash_mapper = HashMapperInit(n)
    /\ digest = EmptyDict
    /\ last = NoCall
    /\ calls = <<>>
    /\ NoTransformer
    /\ NoBrowser

\* sha256 on the stored words and on the words ws: digest, with every value the
\* words of ws that are not stored can have
Hashed(ws) ==
    LET new == ws \ DOMAIN digest
    IN  { [w \in (DOMAIN digest) \cup new |-> IF w \in new THEN f[w] ELSE digest[w]] :
            f \in [new -> 0..MaxDigest] }

\* A word that is not stored is hashed by insert alone (line 41).  When that
\* insert raises, the table has no empty slot and never gets one, so that no
\* later call depends on the digest of the word: digest keeps the stored words.
Kept(sha, self) == [w \in DOMAIN self.word_to_index |-> sha[w]]

LookupOps == {"find", "mapping"}

\* The order in which sequences of calls are explored.
\* find_encrypted_word and get_encryption_mapping assign nothing to self (lines
\* 61-93): a sequence of calls reaches the tables that its inserts alone reach,
\* so every sequence of calls is explored with its lookup last.
NoLookupYet == last.op \notin LookupOps

\* insert(w) of a canonical word w is insert_words([w]) (line 59), so a sequence
\* of calls reaches the table that it reaches with every insert before its last
\* insert_words written as insert_words: insert_words is explored before the
\* first insert, and insert from every table that is reached.
OnlyInsertWordsYet == last.op \in {"construct", "insert_words"}

\* hash_mapper.insert(word), word a canonical word
CallInsert(word) ==
    /\ NoLookupYet
    /\ \E sha \in Hashed({word}) :
         \E r \in {insert(sha, hash_mapper, word)} :
             /\ hash_mapper' = r.self
             /\ digest' = Kept(sha, r.self)
             /\ last' = [op |-> "insert", arg |-> word, err |-> r.err, ret |-> None,
                         hit |-> r.hit, probe |-> r.probe]
    /\ UNCHANGED <<calls, textVars, guiVars>>

\* the lists insert_words is called with
Batches == UNION { [1..k -> RawStrings] : k \in 0..MaxBatch }

\* the words insert_words(words) passes to insert
Canonical(words) ==
    { lower(strip(words[i])) : i \in { j \in 1..Len(words) : Truthy(strip(words[j])) } }

\* hash_mapper.insert_words(words)
CallInsertWords(words) ==
    /\ OnlyInsertWordsYet
    /\ \E sha \in Hashed(Canonical(words)) :
         \E r \in {insert_words(sha, hash_mapper, words)} :
             /\ hash_mapper' = r.self
             /\ digest' = Kept(sha, r.self)
             /\ last' = [op |-> "insert_words", arg |-> None, err |-> r.err,
                         ret |-> None, hit |-> FALSE, probe |-> 0]
    /\ UNCHANGED <<calls, textVars, guiVars>>

\* hash_mapper.find_encrypted_word(word): only a stored word is hashed
CallFind(word) ==
    /\ NoLookupYet
    /\ \E r \in {find_encrypted_word(digest, hash_mapper, word)} :
        /\ last' = [op |-> "find", arg |-> word, err |-> r.err, ret |-> r.ret,
                    hit |-> FALSE, probe |-> 0]
        /\ UNCHANGED <<hash_mapper, digest, calls, textVars, guiVars>>

MapInputs == { ws \in SUBSET RawStrings : Cardinality(ws) <= MaxMapWords }

\* hash_mapper.get_encryption_mapping(words)
CallGetMapping(words) ==
    /\ NoLookupYet
    /\ \E r \in {get_encryption_mapping(digest, hash_mapper, words)} :
        /\ last' = [op |-> "mapping", arg |-> words, err |-> r.err, ret |-> r.ret,
                    hit |-> FALSE, probe |-> 0]
        /\ UNCHANGED <<hash_mapper, digest, calls, textVars, guiVars>>

Next ==
    \/ \E word \in Words : CallInsert(word)
    \/ \E words \in Batches : CallInsertWords(words)
    \/ \E word \in RawStrings : CallFind(word)
    \/ \E words \in MapInputs : CallGetMapping(words)

Spec == Init /\ [][Next]_vars

----------------------------------------------------------------------------
(* Filling a fresh table with distinct words *)

FillWords == Words \cup { <<"d">> }

FillInit ==
    /\ \E n \in 1..MaxCap : hash_mapper = HashMapperInit(n)
    /\ digest = EmptyDict
    /\ last = NoCall
    /\ calls = <<>>
    /\ NoTransformer
    /\ NoBrowser

Called == { calls[i].word : i \in 1..Len(calls) }

\* hash_mapper.insert(word) for a word not passed to insert before, until
\* table_size + 1 words have been passed
FillInsert(word) ==
    /\ word \notin Called
    /\ Len(calls) < hash_mapper.table_size + 1
    /\ \E sha \in Hashed({word}) :
         \E r \in {insert(sha, hash_mapper, word)} :
             /\ hash_mapper' = r.self
             /\ digest' = Kept(sha, r.self)
             /\ last' = [op |-> "insert", arg |-> word, err |-> r.err, ret |-> None,
                         hit |-> r.hit, probe |-> r.probe]
             /\ calls' = Append(calls, [word |-> word, err |-> r.err])
    /\ UNCHANGED <<textVars, guiVars>>

FillNext == \E word \in FillWords : FillInsert(word)

SpecFill == FillInit /\ [][FillNext]_vars

----------------------------------------------------------------------------
(* The scenario of capacity 5: cat, dog, bird, fish, fox *)

Cat == <<"c", "a", "t">>
Dog == <<"d", "o", "g">>
Bird == <<"b", "i", "r", "d">>
Fish == <<"f", "i", "s", "h">>
Fox == <<"f", "o", "x">>

ScenarioWords == <<Cat, Dog, Bird, Fish, Fox>>

ScenarioCap == Len(ScenarioWords)

\* insert reads digest % table_size alone (line 27); the step, which reads
\* digest // table_size (line 33), is computed for the argument of
\* find_encrypted_word, here cat.  Each range is one full period of what is read.
ScenarioDigests(word) ==
    IF word = Cat
    THEN 0..(ScenarioCap * (ScenarioCap - 1) - 1)
    ELSE 0..(ScenarioCap - 1)

ScenarioInit ==
    /\ hash_mapper = HashMapperInit(ScenarioCap)
    /\ digest = EmptyDict
    /\ last = NoCall
    /\ calls = <<>>
    /\ NoTransformer
    /\ NoBrowser

\* hash_mapper.insert of the next word of the scenario
ScenarioInsert ==
    /\ Len(calls) < Len(ScenarioWords)
    /\ LET word == ScenarioWords[Len(calls) + 1]
       IN  \E d \in ScenarioDigests(word) :
             \E r \in {insert(DictSet(digest, word, d), hash_mapper, word)} :
                 /\ hash_mapper' = r.self
                 /\ digest' = Kept(DictSet(digest, word, d), r.self)
                 /\ last' = [op |-> "insert", arg |-> word, err |-> r.err,
                             ret |-> None, hit |-> r.hit, probe |-> r.probe]
                 /\ calls' = Append(calls, [word |-> word, err |-> r.err])
    /\ UNCHANGED <<textVars, guiVars>>

\* hash_mapper.get_encryption_mapping(["cat"]) after the five inserts
ScenarioMapping ==
    /\ Len(calls) = Len(ScenarioWords)
    /\ last.op = "insert"
    /\ \E r \in {get_encryption_mapping(digest, hash_mapper, {Cat})} :
        /\ last' = [op |-> "mapping", arg |-> {Cat}, err |-> r.err, ret |-> r.ret,
                    hit |-> FALSE, probe |-> 0]
        /\ UNCHANGED <<hash_mapper, digest, calls, textVars, guiVars>>

ScenarioNext == ScenarioInsert \/ ScenarioMapping

SpecScenario == ScenarioInit /\ [][ScenarioNext]_vars

----------------------------------------------------------------------------
(* The walk of find_encrypted_word in tables of up to WalkCap slots *)

\* the digests of a table of c slots: one full period of what the code reads of
\* a digest, (digest % c, (digest // c) % (c - 1))
WalkDigests(c) == 0..(c * (c - 1) - 1)

WalkInit ==
    /\ \E n \in 2..WalkCap : hash_mapper = HashMapperInit(n)
    /\ digest = EmptyDict
    /\ last = NoCall
    /\ calls = <<>>
    /\ NoTransformer
    /\ NoBrowser

\* hash_mapper.insert(word), word a canonical word; a word that is not stored
\* gets its digest
WalkInsert(word) ==
    /\ NoLookupYet
    /\ \E d \in IF word \in DOMAIN digest THEN {digest[word]}
                ELSE WalkDigests(hash_mapper.table_size) :
         \E r \in {insert(DictSet(digest, word, d), hash_mapper, word)} :
             /\ hash_mapper' = r.self
             /\ digest' = Kept(DictSet(digest, word, d), r.self)
             /\ last' = [op |-> "insert", arg |-> word, err |-> r.err, ret |-> None,
                         hit |-> r.hit, probe |-> r.probe]
    /\ UNCHANGED <<calls, textVars, guiVars>>

\* hash_mapper.find_encrypted_word(word)
WalkFind(word) ==
    /\ NoLookupYet
    /\ \E r \in {find_encrypted_word(digest, hash_mapper, word)} :
        /\ last' = [op |-> "find", arg |-> word, err |-> r.err, ret |-> r.ret,
                    hit |-> FALSE, probe |-> 0]
        /\ UNCHANGED <<hash_mapper, digest, calls, textVars, guiVars>>

WalkNext ==
    \/ \E word \in Words : WalkInsert(word)
    \/ \E word \in RawStrings : WalkFind(word)

SpecWalk == WalkInit /\ [][WalkNext]_vars

----------------------------------------------------------------------------
(* encrypt_text_content on every short text *)

\* a letter in both cases, a blank, a digit, an underscore and a letter that is
\* not ASCII
TextChars == {"a", "A", " ", "2", "_", "e-acute"}

Texts == UNION { [1..n -> TextChars] : n \in 0..MaxTextLen }

\* the mappings: keys and values are lower-case words
TextKeys == { <<"a">>, <<"a", "a">> }

TextValues == { <<"b">>, <<"c", "b">> }

TextMappings == UNION { [K -> TextValues] : K \in SUBSET TextKeys }

TextInit ==
    /\ text \in Texts
    /\ encryption_mapping \in TextMappings
    /\ last = NoCall
    /\ hash_mapper = None
    /\ digest = EmptyDict
    /\ calls = <<>>
    /\ NoBrowser

\* encrypt_text_content(text, encryption_mapping)
CallEncryptTextContent ==
    /\ last.op = "construct"
    /\ last' = [op |-> "encrypt_text_content", arg |-> None, err |-> NoError,
                ret |-> encrypt_text_content(text, encryption_mapping),
                hit |-> FALSE, probe |-> 0]
    /\ UNCHANGED <<hash_mapper, digest, calls, textVars, guiVars>>

TextNext == CallEncryptTextContent

SpecText == TextInit /\ [][TextNext]_vars

----------------------------------------------------------------------------
(* The window: handlers on the GUI thread and loader threads *)

\* the pages of the quick access buttons (lines 308-309)
WikiUrl == "https://en.wikipedia.org/wiki/Cryptography"

NewsUrl == "https://www.bbc.com/news"

Urls == {WikiUrl, NewsUrl}

\* the text requests.get and BeautifulSoup give for a url
Page(url) == IF url = WikiUrl THEN <<"a", " ", "B">> ELSE <<"c", " ", "a">>

\* table_size_spin ranges over SpinMin .. MaxCap (1000 .. 1000000 in the code,
\* line 329): no table of the window has fewer than two slots, and the least
\* table is too small for the longest dictionary
SpinMin == MaxCap - 1

\* dictionary_text.toPlainText().split() of the dictionary files
Dictionaries == { << <<"a">>, <<"B">> >>, << <<"a">>, <<"B">>, <<"c">> >> }

\* what dictionary_text can hold: a dictionary, or nothing once it is cleared
DictionaryTexts == Dictionaries \cup {<<>>}

DefaultDictionary == << <<"a">>, <<"B">> >>

\* sha256 of the dictionary words, one function as in a run of the program: with
\* three slots a and b have the same primary slot and the steps 1 and 2 occur
BrowserDigest ==
    [w \in Words |-> IF w = <<"a">> THEN 0 ELSE IF w = <<"b">> THEN 3 ELSE 5]

\* A WebContentLoader is referenced by the thread that runs it and, the last one
\* started, by self.content_loader; a HashMapper by self.hash_mapper and by the
\* loaders.  An object without a reference is destroyed: its place in mappers is
\* NoMapper, that of a loader is Destroyed.
\* (No table of the window has table_size 0.)
NoMapper == HashMapperInit(0)

LoaderIsLive(self, threads, l) ==
    threads[l].state = "running" \/ l = self.content_loader

HeldMappers(self, threads) ==
    { threads[l].hash_mapper : l \in { k \in 1..Len(threads) : LoaderIsLive(self, threads, k) } }

Destroyed ==
    [url |-> "", hash_mapper |-> 0, encryption_enabled |-> FALSE, state |-> "destroyed"]

\* the instances heap without those that are destroyed
LiveMappers(self, heap, threads) ==
    [i \in 1..Len(heap) |->
        IF i = self.hash_mapper \/ i \in HeldMappers(self, threads)
        THEN heap[i] ELSE NoMapper]

\* the state after a step: the fields self of the window, the instances heap and
\* the loaders threads, without the objects that are destroyed
Settle(self, heap, threads) ==
    /\ browser' = self
    /\ mappers' = LiveMappers(self, heap, threads)
    /\ loaders' = [l \in 1..Len(threads) |->
                     IF LoaderIsLive(self, threads, l)
                     THEN threads[l] ELSE Destroyed]

\* the window after __init__: the HashMapper of line 214 is constructed,
\* load_default_dictionary has called update_hash_settings (line 626), nothing
\* is loaded
BrowserInit ==
    /\ digest = BrowserDigest
    /\ LET r == update_hash_settings(digest,
                    [ hash_mapper        |-> 1,
                      encryption_enabled |-> TRUE,
                      current_url        |-> "",
                      encryption_stats   |-> EmptyDict,
                      url_input          |-> "",
                      table_size_spin    |-> MaxCap,
                      dictionary_text    |-> DefaultDictionary,
                      content_loader     |-> 0,
                      original_text      |-> None,
                      processed_text     |-> None,
                      shown_mapping      |-> None ],
                    <<HashMapperInit(MaxCap)>>)
       IN  browser = r.self /\ mappers = LiveMappers(r.self, r.heap, <<>>)
    /\ loaders = <<>>
    /\ signals = <<>>
    /\ hash_mapper = None
    /\ last = NoCall
    /\ calls = <<>>
    /\ NoTransformer

\* load_quick_url(url) (lines 654-657)
LoadQuickUrl(url) ==
    /\ Len(loaders) < MaxLoads
    /\ \E r \in {load_url([browser EXCEPT !.url_input = url], loaders)} :
        Settle(r.self, mappers, r.threads)
    /\ UNCHANGED <<hash_mapper, digest, last, calls, textVars, signals>>

\* handle_link_click(url) for a link of the page shown (lines 764-770)
HandleLinkClick(url) ==
    /\ Len(loaders) < MaxLoads
    /\ browser.original_text # None
    /\ \E r \in {load_url([browser EXCEPT !.url_input = url], loaders)} :
        Settle(r.self, mappers, r.threads)
    /\ UNCHANGED <<hash_mapper, digest, last, calls, textVars, signals>>

\* load_url() by the Load button or the return key (lines 290, 294)
LoadUrl ==
    /\ Len(loaders) < MaxLoads
    /\ \E r \in {load_url(browser, loaders)} :
        Settle(r.self, mappers, r.threads)
    /\ UNCHANGED <<hash_mapper, digest, last, calls, textVars, signals>>

\* toggle_encryption(enabled): the checkbox is toggled (line 344)
ToggleEncryption ==
    /\ Len(loaders) < MaxLoads
    /\ \E r \in {toggle_encryption(browser, loaders, ~browser.encryption_enabled)} :
        Settle(r.self, mappers, r.threads)
    /\ UNCHANGED <<hash_mapper, digest, last, calls, textVars, signals>>

\* update_hash_settings() by the Update Settings button (line 349).  words is
\* what dictionary_text holds by then: the widget is a QTextEdit the user edits
\* (lines 379-382), and no handler runs when its text changes.
UpdateHashSettings(words) ==
    /\ Len(mappers) < MaxMappers
    /\ \E r \in {update_hash_settings(digest,
                       [browser EXCEPT !.dictionary_text = words], mappers)} :
        Settle(r.self, r.heap, loaders)
    /\ UNCHANGED <<hash_mapper, digest, last, calls, textVars, signals>>

\* table_size_spin.valueChanged (line 332), dictionary_text holding words
SpinValueChanged(n, words) ==
    /\ Len(mappers) < MaxMappers
    /\ n # browser.table_size_spin
    /\ \E r \in {update_hash_settings(digest,
                       [browser EXCEPT !.table_size_spin = n,
                                       !.dictionary_text = words], mappers)} :
        Settle(r.self, r.heap, loaders)
    /\ UNCHANGED <<hash_mapper, digest, last, calls, textVars, signals>>

\* load_dictionary_file() (lines 888-901)
LoadDictionaryFile(words) ==
    /\ Len(mappers) < MaxMappers
    /\ \E r \in {update_hash_settings(digest,
                       [browser EXCEPT !.dictionary_text = words], mappers)} :
        Settle(r.self, r.heap, loaders)
    /\ UNCHANGED <<hash_mapper, digest, last, calls, textVars, signals>>

\* clear_dictionary() answered with Yes (lines 916-928)
ClearDictionary ==
    /\ Len(mappers) < MaxMappers
    /\ \E r \in {update_hash_settings(digest,
                       [browser EXCEPT !.dictionary_text = <<>>], mappers)} :
        Settle(r.self, r.heap, loaders)
    /\ UNCHANGED <<hash_mapper, digest, last, calls, textVars, signals>>

\* the thread of loader l: run() to the signal it emits, the page fetched
LoaderRuns(l) ==
    /\ l <= Len(loaders)
    /\ loaders[l].state = "running"
    /\ Settle(browser, mappers, [loaders EXCEPT ![l].state = "emitted"])
    /\ signals' = Append(signals,
                         loader_run(digest, loaders[l], mappers[loaders[l].hash_mapper],
                                    Page(loaders[l].url)))
    /\ UNCHANGED <<hash_mapper, digest, last, calls, textVars>>

\* the thread of loader l: requests.get raises (lines 115-116, 149-150)
LoaderFails(l) ==
    /\ l <= Len(loaders)
    /\ loaders[l].state = "running"
    /\ Settle(browser, mappers, [loaders EXCEPT ![l].state = "failed"])
    /\ signals' = Append(signals, [signal |-> "error_occurred", error |-> "requests"])
    /\ UNCHANGED <<hash_mapper, digest, last, calls, textVars>>

\* the GUI thread delivers the oldest signal: content_loaded
OnContentLoaded ==
    /\ signals # <<>>
    /\ Head(signals).signal = "content_loaded"
    /\ browser' = on_content_loaded(digest, browser, mappers, Head(signals))
    /\ signals' = Tail(signals)
    /\ UNCHANGED <<hash_mapper, digest, last, calls, textVars, mappers, loaders>>

\* the GUI thread delivers the oldest signal: error_occurred.  on_content_error
\* (lines 835-839) shows the message and assigns no field.
OnContentError ==
    /\ signals # <<>>
    /\ Head(signals).signal = "error_occurred"
    /\ signals' = Tail(signals)
    /\ UNCHANGED <<hash_mapper, digest, last, calls, textVars, browser, mappers, loaders>>

BrowserNext ==
    \/ \E url \in Urls : LoadQuickUrl(url)
    \/ \E url \in Urls : HandleLinkClick(url)
    \/ LoadUrl
    \/ ToggleEncryption
    \/ \E words \in DictionaryTexts : UpdateHashSettings(words)
    \/ \E n \in SpinMin..MaxCap, words \in DictionaryTexts : SpinValueChanged(n, words)
    \/ \E words \in Dictionaries : LoadDictionaryFile(words)
    \/ ClearDictionary
    \/ \E l \in 1..MaxLoads : LoaderRuns(l)
    \/ \E l \in 1..MaxLoads : LoaderFails(l)
    \/ OnContentLoaded
    \/ OnContentError

SpecBrowser == BrowserInit /\ [][BrowserNext]_vars

----------------------------------------------------------------------------
(* Properties of the table *)

Occupied(self) == { i \in DOMAIN self.table : self.table[i] # None }

Stored(self) == { self.table[i] : i \in Occupied(self) }

IsFull(self) == Occupied(self) = DOMAIN self.table

\* what find_encrypted_word answers for every string a caller can pass
Answers(sha, self) ==
    [ w \in RawStrings \cup Words |-> find_encrypted_word(sha, self, w) ]

\* C1: after any sequence of insert and insert_words calls, the failed ones
\* included, a word is stored in at most one slot, and word_to_index and
\* index_to_word are inverse to each other and hold exactly the occupied slots:
\* table[i] = w iff word_to_index[w] = i iff index_to_word[i] = w.
C1_IndexesMirrorTable ==
    LET self == hash_mapper
    IN  /\ \A i, j \in Occupied(self) : self.table[i] = self.table[j] => i = j
        /\ DOMAIN self.word_to_index = Stored(self)
        /\ DOMAIN self.index_to_word = Occupied(self)
        /\ \A i \in DOMAIN self.table : \A w \in Words \cup Stored(self) :
             /\ (self.table[i] = w) <=>
                    (w \in DOMAIN self.word_to_index /\ self.word_to_index[w] = i)
             /\ (self.table[i] = w) <=>
                    (i \in DOMAIN self.index_to_word /\ self.index_to_word[i] = w)

\* C1 witness: an insert has just failed on a full table that stores two words or more
C1_Witness ==
    /\ last.op \in {"insert", "insert_words"}
    /\ last.err = "ValueError"
    /\ Cardinality(Occupied(hash_mapper)) >= 2

\* C2: with table_size >= 2, find_encrypted_word called for a stored word returns
\* None or a word that differs from that word and is stored in a slot of the table.
C2_SubstituteIsAnotherStoredWord ==
    LET word == strip(lower(last.arg))
    IN  ( /\ last.op = "find"
          /\ hash_mapper.table_size >= 2
          /\ word \in DOMAIN hash_mapper.word_to_index )
        => /\ last.err = NoError
           /\ \/ last.ret = None
              \/ /\ last.ret # word
                 /\ last.ret # last.arg
                 /\ \E i \in DOMAIN hash_mapper.table : hash_mapper.table[i] = last.ret

\* C2 witness: find_encrypted_word of a stored word has returned a substitute
C2_Witness ==
    /\ last.op = "find"
    /\ hash_mapper.table_size >= 2
    /\ last.arg \in DOMAIN hash_mapper.word_to_index
    /\ last.ret # None

\* C3: insert(w) for a word w that is already stored changes neither the slots nor
\* the two indexes nor the number of occupied slots nor any answer of
\* find_encrypted_word, and raises nothing, on a full table too.
C3_InsertIsIdempotent ==
    [][ ( /\ last'.op = "insert"
          /\ last'.arg \in DOMAIN hash_mapper.word_to_index )
        => /\ last'.err = NoError
           /\ hash_mapper'.table = hash_mapper.table
           /\ hash_mapper'.word_to_index = hash_mapper.word_to_index
           /\ hash_mapper'.index_to_word = hash_mapper.index_to_word
           /\ Cardinality(Occupied(hash_mapper')) = Cardinality(Occupied(hash_mapper))
           /\ Answers(digest', hash_mapper') = Answers(digest, hash_mapper) ]_vars

\* C3 witness: insert has returned early for a stored word of a full table
C3_Witness ==
    /\ last.op = "insert"
    /\ last.hit
    /\ last.arg \in DOMAIN hash_mapper.word_to_index
    /\ IsFull(hash_mapper)
    /\ hash_mapper.table_size >= 2

\* C4: insert(w) for a word w that is not stored, on a table (table_size >= 1)
\* without an empty slot, raises the table-full error after at most table_size
\* probes and leaves table, word_to_index and index_to_word as they were.
C4_FullTableRejectsInsert ==
    [][ ( /\ last'.op = "insert"
          /\ hash_mapper.table_size >= 1
          /\ last'.arg \notin DOMAIN hash_mapper.word_to_index
          /\ IsFull(hash_mapper) )
        => /\ last'.err = "ValueError"
           /\ last'.probe <= hash_mapper.table_size
           /\ hash_mapper' = hash_mapper
           /\ last'.arg \notin Stored(hash_mapper') ]_vars

\* C4 witness: insert of a new word has raised the table-full error on a table of
\* two slots
C4_Witness ==
    /\ last.op = "insert"
    /\ last.err = "ValueError"
    /\ last.probe = hash_mapper.table_size
    /\ hash_mapper.table_size = 2
    /\ last.arg \notin Stored(hash_mapper)


\* C5: table_size + 1 distinct words inserted one after another into a fresh
\* table of table_size >= 1: the first table_size calls return, the last one
\* raises the table-full error, so exactly one call fails, and table_size slots
\* are occupied afterwards.
C5_OneInsertTooManyFails ==
    LET c == hash_mapper.table_size
        failed == { i \in 1..Len(calls) : calls[i].err # NoError }
    IN  /\ \A i \in 1..Len(calls) :
             IF i <= c THEN calls[i].err = NoError ELSE calls[i].err = "ValueError"
        /\ Len(calls) = c + 1
             => /\ Cardinality(failed) = 1
                /\ failed = {c + 1}
                /\ Cardinality(Occupied(hash_mapper)) = c
                /\ Stored(hash_mapper) = { calls[i].word : i \in 1..c }

\* C5 witness: four distinct words have been passed to a fresh table of three slots
C5_Witness ==
    /\ hash_mapper.table_size = 3
    /\ Len(calls) = 4
    /\ Cardinality(Called) = 4
    /\ calls[4].err = "ValueError"

\* C6: a HashMapper of table_size < 1 is refused by the constructor with an
\* invalid-configuration error, and no object of table_size < 1 exists that
\* insert or find_encrypted_word could be called on.
C6_BadCapacityIsRefused ==
    hash_mapper.table_size < 1
        => /\ last.op = "construct"
           /\ last.err = "InvalidConfiguration"

\* C7: with table_size 1, find_encrypted_word returns None for every word, stored
\* or not, and raises nothing.
C7_CapacityOneFindsNothing ==
    (last.op = "find" /\ hash_mapper.table_size = 1)
        => (last.err = NoError /\ last.ret = None)

\* C8: the map get_encryption_mapping returns, for any table that insert_words
\* can build and any collection of words, has no key that is mapped to itself.
C8_NoWordMapsToItself ==
    (last.op = "mapping" /\ last.err = NoError)
        => /\ \A k \in DOMAIN last.ret : last.ret[k] # k
           /\ DOMAIN last.ret \subseteq { lower(w) : w \in last.arg }

\* C8 witness: a map of two entries has been returned, one under a key with a blank
C8_Witness ==
    /\ last.op = "mapping"
    /\ last.err = NoError
    /\ Cardinality(DOMAIN last.ret) = 2
    /\ \E k \in DOMAIN last.ret : strip(k) # k

\* C10: capacity 5 and cat, dog, bird, fish, fox inserted in this order, whatever
\* their digests: the five inserts return, the five words occupy the five slots
\* 0..4, one each, and get_encryption_mapping({cat}) is a map of the one key cat to
\* one of the other four words.
C10_ScenarioOfFiveWords ==
    LET self == hash_mapper
        all == { ScenarioWords[i] : i \in 1..Len(ScenarioWords) }
    IN  /\ \A i \in 1..Len(calls) : calls[i].err = NoError
        /\ Len(calls) = Len(ScenarioWords)
             => /\ DOMAIN self.word_to_index = all
                /\ { self.word_to_index[w] : w \in all } = 0..4
                /\ \A w \in all : self.table[self.word_to_index[w]] = w
        /\ last.op = "mapping"
             => /\ last.err = NoError
                /\ DOMAIN last.ret = {Cat}
                /\ last.ret[Cat] \in all \ {Cat}

\* C10 witness: the map of the scenario has been returned, with fox for cat
C10_Witness ==
    /\ last.op = "mapping"
    /\ last.err = NoError
    /\ DOMAIN last.ret = {Cat}
    /\ last.ret[Cat] = Fox
    /\ Cardinality(Occupied(hash_mapper)) = 5

\* C15: find_encrypted_word and get_encryption_mapping leave table, word_to_index
\* and index_to_word as they were, whatever the table and the argument, and on a
\* table (table_size >= 1) without an empty slot they answer without an error.
C15_LookupsReadOnlyAndTotalOnFullTable ==
    [][ last'.op \in LookupOps
        => /\ hash_mapper'.table = hash_mapper.table
           /\ hash_mapper'.word_to_index = hash_mapper.word_to_index
           /\ hash_mapper'.index_to_word = hash_mapper.index_to_word
           /\ (hash_mapper.table_size >= 1 /\ IsFull(hash_mapper))
                => last'.err = NoError ]_vars

\* C16: insert(w) for a word w that is not stored, on a table (table_size >= 1)
\* with an empty slot, returns and stores w in the first empty slot of primary,
\* primary + 1, ... (mod table_size), primary = digest(w) mod table_size: the slots
\* before it in that order were occupied, the slot was empty, and no other slot
\* changes.
C16_LinearProbePlacement ==
    [][ ( /\ last'.op = "insert"
          /\ hash_mapper.table_size >= 1
          /\ last'.arg \notin DOMAIN hash_mapper.word_to_index
          /\ ~IsFull(hash_mapper) )
        => LET w == last'.arg
               c == hash_mapper.table_size
           IN  /\ last'.err = NoError
               /\ w \in DOMAIN hash_mapper'.word_to_index
               /\ LET primary == digest'[w] % c
                      slot    == hash_mapper'.word_to_index[w]
                      p       == CHOOSE k \in 0..(c - 1) : (primary + k) % c = slot
                  IN  /\ hash_mapper.table[slot] = None
                      /\ hash_mapper'.table[slot] = w
                      /\ \A k \in 0..(p - 1) : hash_mapper.table[(primary + k) % c] # None
                      /\ last'.probe = p
                      /\ \A i \in (DOMAIN hash_mapper.table) \ {slot} :
                            hash_mapper'.table[i] = hash_mapper.table[i] ]_vars

\* C16 witness: insert has stored a new word after probing past the end of the
\* table, in a slot below its primary one
C16_Witness ==
    /\ last.op = "insert"
    /\ last.err = NoError
    /\ ~last.hit
    /\ last.probe >= 1
    /\ last.arg \in DOMAIN hash_mapper.word_to_index
    /\ hash_mapper.word_to_index[last.arg] < digest[last.arg] % hash_mapper.table_size

\* C18: over any sequence of insert and insert_words calls, table_size and the
\* number of slots never change, an occupied slot keeps its word, and the number
\* of occupied slots never decreases.
C18_SlotsAreWriteOnce ==
    [][ /\ hash_mapper'.table_size = hash_mapper.table_size
        /\ DOMAIN hash_mapper'.table = DOMAIN hash_mapper.table
        /\ \A i \in DOMAIN hash_mapper.table :
              hash_mapper.table[i] # None => hash_mapper'.table[i] = hash_mapper.table[i]
        /\ Cardinality(Occupied(hash_mapper')) >= Cardinality(Occupied(hash_mapper))
      ]_vars

\* C18 witness: insert_words has filled a table of three slots, the digests of two
\* of its words naming the same slot
C18_Witness ==
    /\ last.op = "insert_words"
    /\ last.err = NoError
    /\ hash_mapper.table_size = 3
    /\ IsFull(hash_mapper)
    /\ \E v, w \in DOMAIN digest : v # w /\ digest[v] % 3 = digest[w] % 3

RECURSIVE GCD(_, _)
GCD(m, n) == IF n = 0 THEN m ELSE GCD(n, m % n)

\* the slots a walk of the given step inspects from start, in order: start,
\* start + step, ... (mod c) until it is back at start
WalkSlots(c, start, step) ==
    LET period == CHOOSE k \in 1..c :
                      /\ (k * step) % c = 0
                      /\ \A m \in 1..(k - 1) : (m * step) % c # 0
    IN  [j \in 1..period |-> (start + (j - 1) * step) % c]

\* C17: find_encrypted_word(w) for a stored word w of a table of c >= 2 slots,
\* with step = 1 + (digest(w) div c) mod (c - 1) and start = (digest(w) mod c +
\* step) mod c: 1 <= step <= c - 1, and the call returns the word of the first
\* slot of start, start + step, ... (mod c), up to the return to start and at
\* most c slots, that holds a word other than w, and None if there is none.
C17_SubstituteWalk ==
    LET self == hash_mapper
        w    == strip(lower(last.arg))
        c    == self.table_size
    IN  (last.op = "find" /\ c >= 2 /\ w \in DOMAIN self.word_to_index)
        => LET step  == 1 + ((digest[w] \div c) % (c - 1))
               start == ((digest[w] % c) + step) % c
               slots == WalkSlots(c, start, step)
               good  == { j \in 1..Len(slots) : self.table[slots[j]] \notin {None, w} }
           IN  /\ step \in 1..(c - 1)
               /\ Len(slots) <= c
               /\ last.err = NoError
               /\ IF good = {}
                  THEN last.ret = None
                  ELSE \E j \in good :
                          /\ \A k \in good : j <= k
                          /\ last.ret = self.table[slots[j]]

\* C17 witness: a walk of step 2 in a table of 4 slots has come back to its
\* start after two slots and returned None, the other stored word being in a slot
\* it does not pass
C17_Witness ==
    /\ last.op = "find"
    /\ hash_mapper.table_size = 4
    /\ last.arg \in DOMAIN hash_mapper.word_to_index
    /\ 1 + ((digest[last.arg] \div 4) % 3) = 2
    /\ Cardinality(Occupied(hash_mapper)) >= 2
    /\ last.err = NoError
    /\ last.ret = None

\* C19: find_encrypted_word(w) for a stored word w of a table of c >= 2 slots
\* whose step is coprime with c returns a word (not None) whenever the table
\* stores a word other than w.
C19_CoprimeStepFindsSubstitute ==
    LET self == hash_mapper
        w    == strip(lower(last.arg))
        c    == self.table_size
    IN  ( /\ last.op = "find"
          /\ c >= 2
          /\ w \in DOMAIN self.word_to_index
          /\ GCD(1 + ((digest[w] \div c) % (c - 1)), c) = 1
          /\ Stored(self) \ {w} # {} )
        => /\ last.err = NoError
           /\ last.ret # None

\* C19 witness: in a table of 4 slots a walk of step 3 has found the one other
\* word in the last slot it inspects, the primary slot of its word
C19_Witness ==
    /\ last.op = "find"
    /\ hash_mapper.table_size = 4
    /\ last.arg \in DOMAIN hash_mapper.word_to_index
    /\ 1 + ((digest[last.arg] \div 4) % 3) = 3
    /\ Cardinality(Occupied(hash_mapper)) = 2
    /\ last.ret # None
    /\ hash_mapper.table[digest[last.arg] % 4] = last.ret

----------------------------------------------------------------------------
(* Properties of encrypt_text_content *)

\* a run: letters of [a-zA-Z] only, at least one
IsRun(s) == s # <<>> /\ \A i \in 1..Len(s) : IsAsciiAlpha(s[i])

NoLetters(s) == \A i \in 1..Len(s) : ~IsAsciiAlpha(s[i])

\* the substitute in the case pattern of the run: upper case for a run of capitals,
\* first letter upper case for a capital followed by small letters, else as it is
CaseTransfer(run, substitute) ==
    IF \A i \in 1..Len(run) : IsUpperChar(run[i])
    THEN [i \in 1..Len(substitute) |-> UpperChar(substitute[i])]
    ELSE IF IsUpperChar(run[1]) /\ \A i \in 2..Len(run) : ~IsUpperChar(run[i])
    THEN [i \in 1..Len(substitute) |->
            IF i = 1 THEN UpperChar(substitute[i]) ELSE substitute[i]]
    ELSE substitute

\* s without its leading letters
RECURSIVE DropRun(_)
DropRun(s) == IF s # <<>> /\ IsAsciiAlpha(Head(s)) THEN DropRun(Tail(s)) ELSE s

\* s with every maximal run of letters replaced by one mark: the characters that
\* are no letters, in their order and grouping
RECURSIVE Skeleton(_)
Skeleton(s) ==
    IF s = <<>> THEN <<>>
    ELSE IF IsAsciiAlpha(Head(s)) THEN <<"run">> \o Skeleton(DropRun(s))
    ELSE <<Head(s)>> \o Skeleton(Tail(s))

\* the maximal runs of letters of s, in order
RECURSIVE RunsOf(_)
RunsOf(s) ==
    IF s = <<>> THEN <<>>
    ELSE IF IsAsciiAlpha(Head(s))
    THEN <<SubSeq(s, 1, Len(s) - Len(DropRun(s)))>> \o RunsOf(DropRun(s))
    ELSE RunsOf(Tail(s))

\* C11: a text with one run of letters that the pattern matches (no digit,
\* underscore or other letter adjoins it) and whose lower-case form is a key: the
\* result is the text with the run replaced by the substitute, all upper case if
\* the run is all upper case (one capital included), first letter upper case if
\* the run is a capital followed by small letters, lower case otherwise.
C11_CaseTransfer ==
    last.op = "encrypt_text_content"
    => \A i, j \in 1..Len(text) :
         LET pre  == SubSeq(text, 1, i - 1)
             run  == SubSeq(text, i, j)
             post == SubSeq(text, j + 1, Len(text))
         IN  ( /\ i <= j
               /\ IsRun(run)
               /\ NoLetters(pre) /\ NoLetters(post)
               /\ pre = <<>> \/ ~IsWordChar(pre[Len(pre)])
               /\ post = <<>> \/ ~IsWordChar(post[1])
               /\ lower(run) \in DOMAIN encryption_mapping )
             => last.ret = pre \o CaseTransfer(run, encryption_mapping[lower(run)]) \o post

\* C11 witness: the run A alone, mapped to cb, has been replaced by CB
C11_Witness ==
    /\ last.op = "encrypt_text_content"
    /\ text = <<" ", "A">>
    /\ <<"a">> \in DOMAIN encryption_mapping
    /\ encryption_mapping[<<"a">>] = <<"c", "b">>
    /\ last.ret = <<" ", "C", "B">>

\* C12: a text with one maximal run of letters whose lower-case form is a key:
\* the run is replaced by its substitute whatever adjoins it, a digit, an
\* underscore or a letter that is not ASCII included.
C12_EveryRunIsAWord ==
    last.op = "encrypt_text_content"
    => \A i, j \in 1..Len(text) :
         LET pre  == SubSeq(text, 1, i - 1)
             run  == SubSeq(text, i, j)
             post == SubSeq(text, j + 1, Len(text))
         IN  ( /\ i <= j
               /\ IsRun(run)
               /\ NoLetters(pre) /\ NoLetters(post)
               /\ lower(run) \in DOMAIN encryption_mapping )
             => last.ret = pre \o CaseTransfer(run, encryption_mapping[lower(run)]) \o post

\* C13: the characters of the result that are no letters are those of the text,
\* in the same order and between the same runs; a run whose lower-case form is no
\* key is in the result as it is in the text; a text without a run is returned as
\* it is.
C13_OnlyRunsChange ==
    last.op = "encrypt_text_content"
    => /\ Skeleton(last.ret) = Skeleton(text)
       /\ Len(RunsOf(last.ret)) = Len(RunsOf(text))
       /\ \A i \in 1..Len(RunsOf(text)) :
            lower(RunsOf(text)[i]) \notin DOMAIN encryption_mapping
                => RunsOf(last.ret)[i] = RunsOf(text)[i]
       /\ RunsOf(text) = <<>> => last.ret = text

\* C13 witness: of two runs around a blank, the one that is a key has been
\* replaced and the one that is none, in capitals, has been kept
C13_Witness ==
    /\ last.op = "encrypt_text_content"
    /\ text = <<"a", " ", "A", "A">>
    /\ DOMAIN encryption_mapping = { <<"a">> }
    /\ last.ret = encryption_mapping[<<"a">>] \o <<" ", "A", "A">>

----------------------------------------------------------------------------
(* Properties of the window *)

\* C14: in every step of the GUI thread and of the loader threads, the HashMapper
\* instance that a loader holds is left as it is, as long as the loader exists
\* and until the instance is destroyed; update_hash_settings inserts into an
\* instance constructed in that step, which no loader holds.
C14_RebuildNeverTouchesHeldMapper ==
    [][ /\ \A l \in 1..Len(loaders) :
              LoaderIsLive(browser, loaders, l)
              => LET id == loaders[l].hash_mapper
                 IN  /\ id \in 1..Len(mappers)
                     /\ mappers'[id] = mappers[id] \/ mappers'[id] = NoMapper
                     /\ LoaderIsLive(browser', loaders', l) => mappers'[id] = mappers[id]
        /\ Len(mappers') > Len(mappers)
              => /\ browser'.hash_mapper = Len(mappers')
                 /\ browser'.hash_mapper \notin HeldMappers(browser, loaders)
                 /\ \A i \in 1..Len(mappers) :
                        mappers'[i] = mappers[i] \/ mappers'[i] = NoMapper ]_vars

\* C14 witness: a loader that is running holds an instance that is no longer the
\* current one and stores other words than the current one
C14_Witness ==
    \E l \in 1..Len(loaders) :
        /\ loaders[l].state = "running"
        /\ loaders[l].hash_mapper # browser.hash_mapper
        /\ Stored(mappers[loaders[l].hash_mapper]) # {}
        /\ Stored(mappers[loaders[l].hash_mapper]) # Stored(mappers[browser.hash_mapper])

\* C20: two or more loads have been started, every loader thread has finished
\* and every signal is delivered, the last load having emitted its content: what
\* the window shows is the content of the load started last, the page of
\* current_url as that loader processed it.
C20_NoStalePage ==
    LET n == Len(loaders)
    IN  ( /\ n >= 2
          /\ signals = <<>>
          /\ \A l \in 1..n : loaders[l].state # "running"
          /\ loaders[n].state = "emitted" )
        => LET newest == loader_run(digest, loaders[n], mappers[loaders[n].hash_mapper],
                                    Page(loaders[n].url))
           IN  /\ loaders[n].url = browser.current_url
               /\ browser.original_text = Page(browser.current_url)
               /\ browser.original_text = newest.original_content
               /\ browser.processed_text = newest.processed_content

\* C21: once on_content_loaded has run, encryption_stats is the mapping the loader
\* applied to the content that is shown: the one computed with the HashMapper
\* and the encryption_enabled the loader was started with.
C21_StatsMatchThePage ==
    browser.original_text # None
        => browser.encryption_stats = browser.shown_mapping

\* the distinct non-blank words of a dictionary, as insert_words stores them
DictionaryWords(words) ==
    { lower(strip(words[i])) : i \in { k \in 1..Len(words) : Truthy(strip(words[k])) } }

\* C22: a step that runs update_hash_settings ends with a current hash_mapper
\* that stores every distinct non-blank word of the dictionary, or with the
\* hash_mapper that was the current one before; a table that holds only a part
\* of the dictionary is never the current one.
C22_RebuildIsAllOrNothing ==
    [][ Len(mappers') > Len(mappers)
          => \/ Stored(mappers'[browser'.hash_mapper])
                    = DictionaryWords(browser'.dictionary_text)
             \/ browser'.hash_mapper = browser.hash_mapper ]_vars

====
